---------------------------- MODULE Spec2Model ----------------------------
(***************************************************************************)
(* go-mongo-fs: an HTTP gateway (fiber) that stores uploaded images in a   *)
(* GridFS bucket ("images" in database "go-fs") and serves them back by id *)
(* or by filename.                                                         *)
(*                                                                         *)
(* The model follows the three handlers of main():                         *)
(*   POST /api/image             upload                                    *)
(*   GET  /api/image/id/:id      download by identifier                    *)
(*   GET  /api/image/name/:name  download by filename                      *)
(* Every request runs on its own worker; the only shared state is the      *)
(* bucket: the collection images.files (one document per object) and the   *)
(* collection images.chunks (the objects' chunks).                         *)
(*                                                                         *)
(* The handlers call the GridFS driver; each call is modelled by what the  *)
(* driver does to the two collections:                                     *)
(*   OpenUploadStream  draws a fresh ObjectID and allocates the stream;    *)
(*                     it writes nothing to files or chunks.               *)
(*   Write             copies the payload into the stream's buffer. The    *)
(*                     buffer is flushed only when it is full (16 MiB);    *)
(*                     fiber.New() keeps the default body limit of 4 MiB,  *)
(*                     so a payload never fills it and Write performs no   *)
(*                     I/O: its error branch cannot be taken.              *)
(*   Close (deferred)  cuts the buffer into chunks of chunkSize bytes (the *)
(*                     last one may be shorter), inserts them in order     *)
(*                     (n = 0, 1, ...), and only then inserts the files    *)
(*                     document. Its error is dropped by the defer.        *)
(*   DownloadToStream / DownloadToStreamByName                             *)
(*                     find the files document (by id / the one with the   *)
(*                     greatest uploadDate for the name), then copy the    *)
(*                     chunks in order of n into the buffer, checking each *)
(*                     chunk's index and size; the copy stops at the first *)
(*                     error, and the handler drops that error.            *)
(* Three specifications: Spec (the store never fails), SpecUploadFault     *)
(* (the store may fail during an upload) and SpecFault (the store may fail *)
(* during any request).                                                    *)
(***************************************************************************)
EXTENDS Naturals, Sequences, FiniteSets

\* ------------------------------------------------------------------ bounds

\* chunk size of the bucket (the driver's default is 255 KiB), scaled down
ChunkSize == 2

\* at most this many upload streams are opened in a behaviour
MaxIds == 2

\* number of hex digits of an identifier (24 for an ObjectID), scaled down
HexLen == 2

Workers == {"w1", "w2"}

\* ------------------------------------------------------------- characters

Lower ==
    {"a","b","c","d","e","f","g","h","i","j","k","l","m",
     "n","o","p","q","r","s","t","u","v","w","x","y","z"}

Upper ==
    {"A","B","C","D","E","F","G","H","I","J","K","L","M",
     "N","O","P","Q","R","S","T","U","V","W","X","Y","Z"}

Digits == {"0","1","2","3","4","5","6","7","8","9"}

\* the class [a-zA-Z0-9] of the extension pattern
Alnum == Lower \cup Upper \cup Digits

HexDigits == <<"0","1","2","3","4","5","6","7","8","9","a","b","c","d","e","f">>

Min(S) == CHOOSE x \in S : \A y \in S : x <= y

Max(S) == CHOOSE x \in S : \A y \in S : x >= y

\* --------------------------------------------------------- request inputs

\* a payload of L bytes; payloads of different k share no byte
Bytes(k, L) == [i \in 1..L |-> 16 * k + i]

\* the uploads tried, filename (a character sequence) and payload: payloads
\* of 0, chunkSize-1, chunkSize, chunkSize+1 and 2*chunkSize+1 bytes, every
\* allowed extension, two payloads under one filename, and filenames the
\* extension check refuses
UploadInputs ==
    { [name |-> <<"a",".","p","n","g">>, content |-> Bytes(1, 0)],
      [name |-> <<"a",".","p","n","g">>, content |-> Bytes(2, ChunkSize + 1)],
      [name |-> <<"a",".","j","p","g">>, content |-> Bytes(3, ChunkSize - 1)],
      [name |-> <<"b",".","j","p","e","g">>, content |-> Bytes(4, ChunkSize)],
      [name |-> <<"b",".","j","p","e","g">>, content |-> Bytes(5, 2 * ChunkSize + 1)],
      [name |-> <<"d","o","c",".","p","d","f">>, content |-> Bytes(6, 1)],
      [name |-> <<"a",".","P","N","G">>, content |-> Bytes(6, 1)],
      [name |-> <<"a",".","p","n","g",".">>, content |-> Bytes(6, 1)],
      [name |-> <<"n","o","e","x","t">>, content |-> Bytes(6, 1)] }

\* the :name path parameters tried: the filenames above that may be stored
\* and one that is never uploaded
NameParams ==
    { <<"a",".","p","n","g">>,
      <<"a",".","j","p","g">>,
      <<"b",".","j","p","e","g">>,
      <<"c",".","p","n","g">> }

RECURSIVE Pow16(_)
Pow16(k) == IF k = 0 THEN 1 ELSE 16 * Pow16(k - 1)

\* ObjectID.Hex / the JSON form of the identifier in the 201 response
Hex(id) == [i \in 1..HexLen |-> HexDigits[((id \div Pow16(HexLen - i)) % 16) + 1]]

HexValue(c) ==
    IF c \in Digits \cup {"a","b","c","d","e","f"}
    THEN (CHOOSE k \in 1..16 : HexDigits[k] = c) - 1
    ELSE CASE c = "A" -> 10 [] c = "B" -> 11 [] c = "C" -> 12
           [] c = "D" -> 13 [] c = "E" -> 14 [] c = "F" -> 15
           [] OTHER -> 16

RECURSIVE HexDecode(_)
HexDecode(s) ==
    IF s = <<>> THEN 0
    ELSE 16 * HexDecode(SubSeq(s, 1, Len(s) - 1)) + HexValue(s[Len(s)])

\* faulty variant: the length of the string is not checked
ObjectIDFromHexAnyLength(s) ==
    IF \E i \in 1..Len(s) : HexValue(s[i]) = 16 THEN [ok |-> FALSE, id |-> 0]
    ELSE [ok |-> TRUE, id |-> HexDecode(s)]

\* primitive.ObjectIDFromHex: the length must be that of an identifier and
\* every character a hex digit
ObjectIDFromHex(s) ==
    IF Len(s) # HexLen THEN [ok |-> FALSE, id |-> 0]
    ELSE IF \E i \in 1..Len(s) : HexValue(s[i]) = 16 THEN [ok |-> FALSE, id |-> 0]
    ELSE [ok |-> TRUE, id |-> HexDecode(s)]

\* the :id path parameters tried: every identifier the bound allows, one
\* beyond it, and malformed strings (a digit that is not hex, too short)
IdParams ==
    {Hex(i) : i \in 1..(MaxIds + 1)}
      \cup { [i \in 1..HexLen |-> "z"],
             [i \in 1..(HexLen - 1) |-> "1"] }

\* ------------------------------------------------------------------ state

VARIABLES
    files,      \* images.files: set of files documents
    chunks,     \* images.chunks: set of chunk documents
    uploads,    \* history: uploads[i] is the request that drew identifier i
    issued,     \* history: identifiers returned in a 201 response
    now,        \* the latest uploadDate handed out
    pc,         \* per worker: idle, close, dl, done
    req,        \* per worker: the request being handled
    us,         \* per worker: the upload stream
    meta,       \* per worker: avatarMetadata, the result of FindOne
    resp        \* per worker: the response

vars == <<files, chunks, uploads, issued, now, pc, req, us, meta, resp>>

NoReq == [op |-> "none", arg |-> <<>>, content |-> <<>>, known |-> FALSE]

NoStream == [FileID |-> 0, filename |-> <<>>, ext |-> <<>>, buffer |-> <<>>,
             chunkIndex |-> 0, fileLen |-> 0, overlap |-> FALSE]

NoDoc == [id |-> 0, filename |-> <<>>, length |-> 0, chunkSize |-> 0,
          uploadDate |-> 0, ext |-> <<>>]

NoResp == [status |-> 0, body |-> <<>>, ctype |-> "", cache |-> "", clen |-> 0,
           id |-> <<>>, name |-> <<>>, size |-> 0, src |-> 0, err |-> FALSE]

Init ==
    /\ files = {}
    /\ chunks = {}
    /\ uploads = <<>>
    /\ issued = {}
    /\ now = 0
    /\ pc = [w \in Workers |-> "idle"]
    /\ req = [w \in Workers |-> NoReq]
    /\ us = [w \in Workers |-> NoStream]
    /\ meta = [w \in Workers |-> NoDoc]
    /\ resp = [w \in Workers |-> NoResp]


\* --------------------------------------------------- the handlers' helpers

\* regexp.MustCompile(`\.[a-zA-Z0-9]+$`).FindString(name): the leftmost match,
\* a dot followed by one or more alphanumerics up to the end of the name; the
\* empty string when nothing matches
FileExtension(name) ==
    LET starts == { i \in 1..Len(name) :
                      /\ name[i] = "."
                      /\ i < Len(name)
                      /\ \A j \in (i + 1)..Len(name) : name[j] \in Alnum }
    IN  IF starts = {} THEN <<>> ELSE SubSeq(name, Min(starts), Len(name))

\* faulty variant: the comparison ignores the case of the extension
AllowedExtensionAnyCase(ext) ==
    \/ ext \in {<<".","j","p","g">>, <<".","J","P","G">>}
    \/ ext \in {<<".","j","p","e","g">>, <<".","J","P","E","G">>}
    \/ ext \in {<<".","p","n","g">>, <<".","P","N","G">>}

\* fileExtension != ".jpg" && fileExtension != ".jpeg" && fileExtension != ".png"
AllowedExtension(ext) ==
    \/ ext = <<".","j","p","g">>
    \/ ext = <<".","j","p","e","g">>
    \/ ext = <<".","p","n","g">>

\* faulty variant: the switch lacks the case ".jpeg"
ContentTypeNoJpeg(ext) ==
    CASE ext = <<".","p","n","g">> -> "image/png"
      [] ext = <<".","j","p","g">> -> "image/jpeg"
      [] OTHER -> "text/plain; charset=utf-8"

\* setResponseHeaders: the switch on ext; with no case taken the header is
\* left to the server's default
ContentType(ext) ==
    CASE ext = <<".","p","n","g">> -> "image/png"
      [] ext = <<".","j","p","g">> -> "image/jpeg"
      [] ext = <<".","j","p","e","g">> -> "image/jpeg"
      [] OTHER -> "text/plain; charset=utf-8"

CacheControl == "public, max-age=31536000"

\* ------------------------------------------------------ the upload stream

\* OpenUploadStream(filename, SetMetadata({"ext": fileExtension})) followed by
\* Write(content): a fresh stream whose buffer holds the whole payload
OpenedStream(id, name, ext, content) ==
    [FileID |-> id, filename |-> name, ext |-> ext, buffer |-> content,
     chunkIndex |-> 0, fileLen |-> 0, overlap |-> FALSE]

\* faulty variant: uploadPartial = false, the last partial chunk is not uploaded
NumUploadChunksFloor(stream) == Len(stream.buffer) \div ChunkSize

\* uploadChunks(uploadPartial = true): ceil(bufferIndex / chunkSize) chunks
NumUploadChunks(stream) == (Len(stream.buffer) + ChunkSize - 1) \div ChunkSize

\* faulty variant: the chunks are numbered from 1
ChunkDocFromOne(stream, k) ==
    [files_id |-> stream.FileID,
     n |-> k + 1,
     data |-> SubSeq(stream.buffer, k * ChunkSize + 1,
                     Min({(k + 1) * ChunkSize, Len(stream.buffer)}))]

\* uploadChunks: the chunk document number k of the stream's buffer
ChunkDoc(stream, k) ==
    [files_id |-> stream.FileID,
     n |-> k,
     data |-> SubSeq(stream.buffer, k * ChunkSize + 1,
                     Min({(k + 1) * ChunkSize, Len(stream.buffer)}))]

\* createFilesCollDoc: the files document of a closed stream
FilesDoc(stream, date) ==
    [id |-> stream.FileID, filename |-> stream.filename,
     length |-> stream.fileLen, chunkSize |-> ChunkSize, uploadDate |-> date,
     ext |-> stream.ext]

\* ---------------------------------------------------- the download stream

\* faulty variant: the chunk cursor is not filtered by files_id
ChunksOfAnyFile(id) == {c \in chunks : c.files_id = id \/ c.files_id # id}

\* findChunks: the chunk documents of an object
ChunksOf(id) == {c \in chunks : c.files_id = id}

\* findChunks: the cursor over an object's chunks, sorted by n
RECURSIVE SortByN(_)
SortByN(S) ==
    IF S = {} THEN <<>>
    ELSE LET c == CHOOSE x \in S : \A y \in S : x.n <= y.n
         IN  <<c>> \o SortByN(S \ {c})

NumChunks(doc) == (doc.length + doc.chunkSize - 1) \div doc.chunkSize

ExpectedChunkSize(doc, k) ==
    IF k = NumChunks(doc) - 1
    THEN doc.length - doc.chunkSize * (NumChunks(doc) - 1)
    ELSE doc.chunkSize

\* DownloadStream.Read under io.Copy, from chunk k on: the bytes copied to
\* the buffer and whether the copy ended with an error. The cursor delivers
\* `limit` chunks and then fails (limit = NumChunks(doc): it never fails).
RECURSIVE ReadChunks(_, _, _, _)
ReadChunks(doc, cur, k, limit) ==
    IF k >= NumChunks(doc) THEN [bytes |-> <<>>, err |-> FALSE]
    ELSE IF k >= limit THEN [bytes |-> <<>>, err |-> TRUE]
    ELSE IF k + 1 > Len(cur) THEN [bytes |-> <<>>, err |-> TRUE]
    ELSE IF cur[k + 1].n # k THEN [bytes |-> <<>>, err |-> TRUE]
    ELSE IF Len(cur[k + 1].data) # ExpectedChunkSize(doc, k)
         THEN [bytes |-> <<>>, err |-> TRUE]
    ELSE LET rest == ReadChunks(doc, cur, k + 1, limit)
         IN  [bytes |-> cur[k + 1].data \o rest.bytes, err |-> rest.err]

\* downloadToStream of the object of files document doc
DownloadToStream(doc, limit) ==
    IF doc.length = 0 THEN [bytes |-> <<>>, err |-> FALSE]
    ELSE ReadChunks(doc, SortByN(ChunksOf(doc.id)), 0, limit)

\* faulty variant: revision 0, the oldest of the files documents with the name
OldestByName(name) ==
    { d \in files :
        /\ d.filename = name
        /\ \A e \in files : e.filename = name => d.uploadDate <= e.uploadDate }

\* DownloadToStreamByName, default revision -1: of the files documents with
\* the name, those with the greatest uploadDate
LatestByName(name) ==
    { d \in files :
        /\ d.filename = name
        /\ \A e \in files : e.filename = name => e.uploadDate <= d.uploadDate }

\* ---------------------------------------------------------------- responses

Created(id, name, size, err) ==
    [NoResp EXCEPT !.status = 201, !.id = Hex(id), !.name = name,
                   !.size = size, !.err = err]

ErrorResponse(status, err) == [NoResp EXCEPT !.status = status, !.err = err]

\* setResponseHeaders followed by c.Send(buffer.Bytes())
ImageResponse(buffer, ext, src, err) ==
    [NoResp EXCEPT !.status = 200, !.body = buffer, !.ctype = ContentType(ext),
                   !.cache = CacheControl, !.clen = Len(buffer),
                   !.src = src, !.err = err]

Reply(w, r) ==
    /\ resp' = [resp EXCEPT ![w] = r]
    /\ pc' = [pc EXCEPT ![w] = "done"]

\* ------------------------------------------------------- POST /api/image

\* c.FormFile("image") fails: the request carries no such file
PostNoFile(w) ==
    /\ pc[w] = "idle"
    /\ req' = [req EXCEPT ![w] = [NoReq EXCEPT !.op = "post"]]
    /\ Reply(w, ErrorResponse(400, FALSE))
    /\ UNCHANGED <<files, chunks, uploads, issued, now, us, meta>>

\* faulty variant: the identifier is derived from the number of stored objects
NewObjectIDFromCount == Cardinality(files) + 1

\* primitive.NewObjectID in OpenUploadStream: an identifier no earlier call
\* returned (the process-wide counter of the driver)
NewObjectID == Len(uploads) + 1

\* the extension is not one of .jpg, .jpeg, .png: 400 "Invalid file type"
PostInvalidType(w) ==
    /\ pc[w] = "idle"
    /\ \E in \in UploadInputs :
         /\ ~AllowedExtension(FileExtension(in.name))
         /\ req' = [req EXCEPT ![w] = [NoReq EXCEPT !.op = "post", !.arg = in.name,
                                              !.content = in.content]]
    /\ Reply(w, ErrorResponse(400, FALSE))
    /\ UNCHANGED <<files, chunks, uploads, issued, now, us, meta>>

\* the payload is read, the upload stream is opened under a fresh identifier,
\* the payload is written to the stream's buffer and the 201 response is
\* built; the deferred Close has yet to run
PostOpenUploadStream(w) ==
    /\ pc[w] = "idle"
    /\ Len(uploads) < MaxIds
    /\ \E in \in UploadInputs :
         LET name == in.name
             content == in.content
             ext == FileExtension(name)
             id == NewObjectID
         IN  /\ AllowedExtension(ext)
             /\ req' = [req EXCEPT ![w] = [NoReq EXCEPT !.op = "post", !.arg = name,
                                                  !.content = content]]
             /\ uploads' = Append(uploads, [name |-> name, content |-> content])
             /\ us' = [us EXCEPT ![w] = OpenedStream(id, name, ext, content)]
             /\ resp' = [resp EXCEPT ![w] = Created(id, name, Len(content), FALSE)]
    /\ pc' = [pc EXCEPT ![w] = "close"]
    /\ UNCHANGED <<files, chunks, issued, now, meta>>

\* deferred Close, uploadChunks: the next chunk of the buffer is inserted
\* into images.chunks
CloseUploadChunks(w) ==
    /\ pc[w] = "close"
    /\ us[w].chunkIndex < NumUploadChunks(us[w])
    /\ LET doc == ChunkDoc(us[w], us[w].chunkIndex)
       IN  /\ chunks' = chunks \cup {doc}
           /\ us' = [us EXCEPT ![w].chunkIndex = @ + 1,
                               ![w].fileLen = @ + Len(doc.data)]
    /\ UNCHANGED <<files, uploads, issued, now, pc, req, meta, resp>>

\* the uploadDate (time.Now, in milliseconds) of a files document created
\* now: later than the dates of the documents created before the request
\* began; the same millisecond as the latest date or a later one when a
\* document was created while this stream was open
UploadDates(w) == IF us[w].overlap THEN {now, now + 1} ELSE {now + 1}

\* faulty variant: the files document is created without waiting for the chunks
ChunksUploadedEarly(stream) == stream.chunkIndex >= 0

\* Close calls createFilesCollDoc after uploadChunks has returned
ChunksUploaded(stream) == stream.chunkIndex = NumUploadChunks(stream)

\* deferred Close, createFilesCollDoc: with every chunk inserted, the files
\* document is inserted; the handler returns and the 201 response is sent
CloseCreateFilesDoc(w) ==
    /\ pc[w] = "close"
    /\ ChunksUploaded(us[w])
    /\ \E date \in UploadDates(w) :
         /\ files' = files \cup {FilesDoc(us[w], date)}
         /\ now' = date
    /\ issued' = issued \cup {us[w].FileID}
    /\ us' = [v \in Workers |->
                IF v = w THEN NoStream
                ELSE IF pc[v] = "close" THEN [us[v] EXCEPT !.overlap = TRUE]
                ELSE us[v]]
    /\ pc' = [pc EXCEPT ![w] = "done"]
    /\ UNCHANGED <<chunks, uploads, req, meta, resp>>

\* -------------------------------------------------- GET /api/image/id/:id

IdRequest(p) ==
    [NoReq EXCEPT !.op = "getid", !.arg = p,
                  !.known = ObjectIDFromHex(p).ok /\ ObjectIDFromHex(p).id \in issued]

\* db.Collection("images.files").FindOne({"_id": id})
FindById(id) == {d \in files : d.id = id}

\* ObjectIDFromHex fails: 400
GetIdBadRequest(w) ==
    /\ pc[w] = "idle"
    /\ \E p \in IdParams :
         /\ ~ObjectIDFromHex(p).ok
         /\ req' = [req EXCEPT ![w] = IdRequest(p)]
    /\ Reply(w, ErrorResponse(400, FALSE))
    /\ UNCHANGED <<files, chunks, uploads, issued, now, us, meta>>

\* FindOne finds no files document: 404
GetIdNotFound(w) ==
    /\ pc[w] = "idle"
    /\ \E p \in IdParams :
         /\ ObjectIDFromHex(p).ok
         /\ FindById(ObjectIDFromHex(p).id) = {}
         /\ req' = [req EXCEPT ![w] = IdRequest(p)]
    /\ Reply(w, ErrorResponse(404, FALSE))
    /\ UNCHANGED <<files, chunks, uploads, issued, now, us, meta>>

\* FindOne decodes the files document into avatarMetadata
GetIdFindOne(w) ==
    /\ pc[w] = "idle"
    /\ \E p \in IdParams :
         /\ ObjectIDFromHex(p).ok
         /\ \E d \in FindById(ObjectIDFromHex(p).id) :
              meta' = [meta EXCEPT ![w] = d]
         /\ req' = [req EXCEPT ![w] = IdRequest(p)]
    /\ pc' = [pc EXCEPT ![w] = "dl"]
    /\ UNCHANGED <<files, chunks, uploads, issued, now, us, resp>>

\* bucket.DownloadToStream(id, &buffer), its error dropped; the headers are
\* set from the metadata's ext and the buffer is sent
GetIdDownload(w) ==
    /\ pc[w] = "dl"
    /\ req[w].op = "getid"
    /\ LET found == FindById(ObjectIDFromHex(req[w].arg).id)
       IN  IF found = {}
           THEN Reply(w, ImageResponse(<<>>, meta[w].ext, 0, TRUE))
           ELSE \E d \in found :
                  LET r == DownloadToStream(d, NumChunks(d))
                  IN  Reply(w, ImageResponse(r.bytes, meta[w].ext, d.id, r.err))
    /\ UNCHANGED <<files, chunks, uploads, issued, now, req, us, meta>>

\* ---------------------------------------------- GET /api/image/name/:name

NameRequest(name) ==
    [NoReq EXCEPT !.op = "getname", !.arg = name,
                  !.known = \E i \in issued : uploads[i].name = name]

\* db.Collection("images.files").FindOne({"filename": name}): with no sort
\* given, any one of the matching documents
FindByName(name) == {d \in files : d.filename = name}

\* FindOne finds no files document: 404
GetNameNotFound(w) ==
    /\ pc[w] = "idle"
    /\ \E name \in NameParams :
         /\ FindByName(name) = {}
         /\ req' = [req EXCEPT ![w] = NameRequest(name)]
    /\ Reply(w, ErrorResponse(404, FALSE))
    /\ UNCHANGED <<files, chunks, uploads, issued, now, us, meta>>

\* FindOne decodes a files document into avatarMetadata
GetNameFindOne(w) ==
    /\ pc[w] = "idle"
    /\ \E name \in NameParams :
         /\ \E d \in FindByName(name) : meta' = [meta EXCEPT ![w] = d]
         /\ req' = [req EXCEPT ![w] = NameRequest(name)]
    /\ pc' = [pc EXCEPT ![w] = "dl"]
    /\ UNCHANGED <<files, chunks, uploads, issued, now, us, resp>>

\* bucket.DownloadToStreamByName(name, &buffer), its error dropped; the
\* headers are set from the metadata's ext and the buffer is sent
GetNameDownload(w) ==
    /\ pc[w] = "dl"
    /\ req[w].op = "getname"
    /\ LET found == LatestByName(req[w].arg)
       IN  IF found = {}
           THEN Reply(w, ImageResponse(<<>>, meta[w].ext, 0, TRUE))
           ELSE \E d \in found :
                  LET r == DownloadToStream(d, NumChunks(d))
                  IN  Reply(w, ImageResponse(r.bytes, meta[w].ext, d.id, r.err))
    /\ UNCHANGED <<files, chunks, uploads, issued, now, req, us, meta>>

\* the response has been delivered; the worker takes the next request
Finish(w) ==
    /\ pc[w] = "done"
    /\ pc' = [pc EXCEPT ![w] = "idle"]
    /\ req' = [req EXCEPT ![w] = NoReq]
    /\ us' = [us EXCEPT ![w] = NoStream]
    /\ meta' = [meta EXCEPT ![w] = NoDoc]
    /\ resp' = [resp EXCEPT ![w] = NoResp]
    /\ UNCHANGED <<files, chunks, uploads, issued, now>>

Next ==
    \E w \in Workers :
        \/ PostNoFile(w)
        \/ PostInvalidType(w)
        \/ PostOpenUploadStream(w)
        \/ CloseUploadChunks(w)
        \/ CloseCreateFilesDoc(w)
        \/ GetIdBadRequest(w)
        \/ GetIdNotFound(w)
        \/ GetIdFindOne(w)
        \/ GetIdDownload(w)
        \/ GetNameNotFound(w)
        \/ GetNameFindOne(w)
        \/ GetNameDownload(w)
        \/ Finish(w)

Spec == Init /\ [][Next]_vars

\* ------------------------------------------------------- storage failures

\* OpenUploadStream returns an error (the bucket's first write cannot reach
\* the store): 500
PostOpenUploadStreamFail(w) ==
    /\ pc[w] = "idle"
    /\ \E in \in UploadInputs :
         /\ AllowedExtension(FileExtension(in.name))
         /\ req' = [req EXCEPT ![w] = [NoReq EXCEPT !.op = "post", !.arg = in.name,
                                              !.content = in.content]]
    /\ Reply(w, ErrorResponse(500, TRUE))
    /\ UNCHANGED <<files, chunks, uploads, issued, now, us, meta>>

\* deferred Close, uploadChunks: the insert of the next chunk fails; Close
\* returns the error, the defer drops it, and the 201 response built before
\* is sent
CloseUploadChunksFail(w) ==
    /\ pc[w] = "close"
    /\ us[w].chunkIndex < NumUploadChunks(us[w])
    /\ issued' = issued \cup {us[w].FileID}
    /\ us' = [us EXCEPT ![w] = NoStream]
    /\ Reply(w, [resp[w] EXCEPT !.err = TRUE])
    /\ UNCHANGED <<files, chunks, uploads, now, req, meta>>

\* deferred Close, createFilesCollDoc: the insert of the files document
\* fails; the error is dropped and the 201 response is sent
CloseCreateFilesDocFail(w) ==
    /\ pc[w] = "close"
    /\ ChunksUploaded(us[w])
    /\ issued' = issued \cup {us[w].FileID}
    /\ us' = [us EXCEPT ![w] = NoStream]
    /\ Reply(w, [resp[w] EXCEPT !.err = TRUE])
    /\ UNCHANGED <<files, chunks, uploads, now, req, meta>>

\* GET by id: FindOne returns an error other than "no documents"; the
\* handler answers 404 all the same
GetIdFindOneFail(w) ==
    /\ pc[w] = "idle"
    /\ \E p \in IdParams :
         /\ ObjectIDFromHex(p).ok
         /\ req' = [req EXCEPT ![w] = IdRequest(p)]
    /\ Reply(w, ErrorResponse(404, TRUE))
    /\ UNCHANGED <<files, chunks, uploads, issued, now, us, meta>>

\* GET by name: FindOne returns an error; 404
GetNameFindOneFail(w) ==
    /\ pc[w] = "idle"
    /\ \E name \in NameParams :
         req' = [req EXCEPT ![w] = NameRequest(name)]
    /\ Reply(w, ErrorResponse(404, TRUE))
    /\ UNCHANGED <<files, chunks, uploads, issued, now, us, meta>>

\* the files documents a download reads from
Selected(w) ==
    IF req[w].op = "getid"
    THEN FindById(ObjectIDFromHex(req[w].arg).id)
    ELSE LatestByName(req[w].arg)

\* DownloadToStream / DownloadToStreamByName fails part-way: the lookup of
\* the files document or the chunk cursor fails after `limit` chunks were
\* copied; the error is dropped and what the buffer holds is sent with 200
DownloadFail(w) ==
    /\ pc[w] = "dl"
    /\ \E d \in Selected(w) :
         \E limit \in 0..NumChunks(d) :
            /\ limit < NumChunks(d) \/ limit = 0
            /\ LET r == IF limit = 0 THEN [bytes |-> <<>>, err |-> TRUE]
                        ELSE DownloadToStream(d, limit)
               IN  Reply(w, ImageResponse(r.bytes, meta[w].ext, d.id, r.err))
    /\ UNCHANGED <<files, chunks, uploads, issued, now, req, us, meta>>

UploadFault ==
    \E w \in Workers :
        \/ PostOpenUploadStreamFail(w)
        \/ CloseUploadChunksFail(w)
        \/ CloseCreateFilesDocFail(w)

\* the requests that write or read objects: uploads that pass the extension
\* check, and downloads whose FindOne finds a files document
ObjectRequests ==
    \E w \in Workers :
        \/ PostOpenUploadStream(w)
        \/ CloseUploadChunks(w)
        \/ CloseCreateFilesDoc(w)
        \/ GetIdFindOne(w)
        \/ GetIdDownload(w)
        \/ GetNameFindOne(w)
        \/ GetNameDownload(w)
        \/ Finish(w)

DownloadFault ==
    \E w \in Workers :
        \/ GetIdFindOneFail(w)
        \/ GetNameFindOneFail(w)
        \/ DownloadFail(w)

NextUploadFault == ObjectRequests \/ UploadFault

NextFault == Next \/ UploadFault \/ DownloadFault

\* uploads and downloads of objects, where the store may fail while an
\* upload writes to it
SpecUploadFault == Init /\ [][NextUploadFault]_vars

\* the store may fail during any request
SpecFault == Init /\ [][NextFault]_vars

\* ------------------------------------------------- vocabulary of the claims

HasSuffix(name, suf) ==
    /\ Len(name) >= Len(suf)
    /\ SubSeq(name, Len(name) - Len(suf) + 1, Len(name)) = suf

IsPng(name) == HasSuffix(name, <<".","p","n","g">>)

IsJpeg(name) ==
    \/ HasSuffix(name, <<".","j","p","g">>)
    \/ HasSuffix(name, <<".","j","p","e","g">>)

\* the filename ends in exactly .jpg, .jpeg or .png
ImageName(name) == IsPng(name) \/ IsJpeg(name)

\* the Content-Type for a filename's extension
MimeOf(name) == IF IsPng(name) THEN "image/png" ELSE "image/jpeg"

\* a well-formed identifier: HexLen hexadecimal digits
WellFormedId(p) ==
    /\ Len(p) = HexLen
    /\ \A i \in 1..Len(p) :
         p[i] \in Digits \cup {"a","b","c","d","e","f","A","B","C","D","E","F"}

RECURSIVE Concat(_)
Concat(cur) == IF cur = <<>> THEN <<>> ELSE Head(cur).data \o Concat(Tail(cur))

\* the chunks of an object, concatenated in the order of their numbers
Reassembled(id) == Concat(SortByN(ChunksOf(id)))

\* the chunks of an object are numbered 0..n-1, each number once
Contiguous(id) ==
    LET C == ChunksOf(id)
    IN  /\ {c.n : c \in C} = 0..(Cardinality(C) - 1)
        /\ \A c, e \in C : c.n = e.n => c = e

\* the object of identifier id is fully present: one files document, and
\* chunks that make up the payload uploaded under that identifier
FullyPresent(id) ==
    /\ Cardinality(FindById(id)) = 1
    /\ Contiguous(id)
    /\ Reassembled(id) = uploads[id].content
    /\ \A d \in FindById(id) :
         /\ d.length = Len(uploads[id].content)
         /\ d.filename = uploads[id].name

Done(w, op) == pc[w] = "done" /\ req[w].op = op

\* ------------------------------------------------------------------ claims

\* C1  Round trip by id: once an upload has answered 201 with an identifier,
\* every GET by that identifier begun afterwards answers 200 with the
\* uploaded payload, byte for byte, and the Content-Type of the filename's
\* extension; the identifier of a 201 response parses back to the identifier
\* under which the request's filename and payload were stored.
C1_RoundTripById ==
    /\ \A w \in Workers :
         Done(w, "getid") /\ req[w].known =>
            LET id == HexDecode(req[w].arg)
            IN  /\ resp[w].status = 200
                /\ resp[w].body = uploads[id].content
                /\ resp[w].ctype = MimeOf(uploads[id].name)
    /\ \A w \in Workers :
         Done(w, "post") /\ resp[w].status = 201 =>
            /\ WellFormedId(resp[w].id)
            /\ HexDecode(resp[w].id) \in issued
            /\ uploads[HexDecode(resp[w].id)] =
                  [name |-> req[w].arg, content |-> req[w].content]

\* a payload of several chunks came back whole while another object is stored
C1_Witness ==
    \E w \in Workers :
        /\ Done(w, "getid") /\ req[w].known
        /\ resp[w].status = 200
        /\ Len(resp[w].body) = 2 * ChunkSize + 1
        /\ Cardinality(files) = 2

C3_NoPartialObject ==
    /\ \A d \in files : FullyPresent(d.id)
    /\ \A w \in Workers :
         pc[w] \in {"dl", "done"} /\ meta[w] # NoDoc =>
            /\ meta[w] \in files
            /\ FullyPresent(meta[w].id)
    /\ \A w \in Workers :
         pc[w] = "done" /\ resp[w].status = 200 =>
            /\ resp[w].src \in {d.id : d \in files}
            /\ resp[w].body = uploads[resp[w].src].content

\* a reader got an object whole while a failed upload of the same filename
\* has left chunks without a files document
C3_Witness ==
    \E w \in Workers :
        /\ pc[w] = "done" /\ resp[w].status = 200 /\ resp[w].body # <<>>
        /\ \E id \in issued :
             /\ ChunksOf(id) # {}
             /\ FindById(id) = {}
             /\ uploads[id].name = uploads[resp[w].src].name

\* C4  Every storage failure is surfaced: a request in which a storage step
\* failed answers neither 201 nor 200; an upload answers 201 only with the
\* object fully present; a download answers 200 only with the stored payload.
C4_FailuresSurfaced ==
    \A w \in Workers :
        pc[w] = "done" =>
            /\ resp[w].err => resp[w].status \notin {200, 201}
            /\ req[w].op = "post" /\ resp[w].status = 201 =>
                  FullyPresent(HexDecode(resp[w].id))
            /\ req[w].op \in {"getid", "getname"} /\ resp[w].status = 200 =>
                  /\ resp[w].src \in {d.id : d \in files}
                  /\ resp[w].body = uploads[resp[w].src].content

\* C5  Rejection leaves the store unchanged: an upload whose filename does
\* not end in exactly .jpg, .jpeg or .png answers 400 at once, and no files
\* document, chunk or identifier is created by it.
C5_RejectionNoEffect ==
    [][\A w \in Workers :
         pc[w] = "idle" /\ req'[w].op = "post" /\ ~ImageName(req'[w].arg) =>
            /\ pc'[w] = "done"
            /\ resp'[w].status = 400
            /\ UNCHANGED <<files, chunks, uploads, issued>>]_vars

\* an upload named a.PNG was refused while an object is stored
C5_Witness ==
    \E w \in Workers :
        /\ Done(w, "post")
        /\ req[w].arg = <<"a",".","P","N","G">>
        /\ resp[w].status = 400
        /\ files # {}

\* C6  Not found: a GET by a malformed identifier answers 400; a GET by a
\* well-formed identifier that no 201 response has issued answers 404; a GET
\* by a filename under which no upload has answered 201 answers 404; no step
\* of a GET changes the store.
C6_NotFound ==
    [][\A w \in Workers :
         /\ pc[w] = "idle" /\ req'[w].op = "getid" /\ ~WellFormedId(req'[w].arg) =>
               pc'[w] = "done" /\ resp'[w].status = 400
         /\ ( /\ pc[w] = "idle" /\ req'[w].op = "getid"
              /\ WellFormedId(req'[w].arg)
              /\ HexDecode(req'[w].arg) \notin issued ) =>
               pc'[w] = "done" /\ resp'[w].status = 404
         /\ ( /\ pc[w] = "idle" /\ req'[w].op = "getname"
              /\ \A i \in issued : uploads[i].name # req'[w].arg ) =>
               pc'[w] = "done" /\ resp'[w].status = 404
         /\ req'[w].op \in {"getid", "getname"} /\ pc'[w] # pc[w] =>
               UNCHANGED <<files, chunks, uploads, issued>>]_vars

\* with an object stored, one GET by an identifier never issued has answered
\* 404 and one by a malformed identifier 400
C6_Witness ==
    \E w, v \in Workers :
        /\ Done(w, "getid") /\ WellFormedId(req[w].arg)
        /\ HexDecode(req[w].arg) \notin issued
        /\ resp[w].status = 404
        /\ Done(v, "getid") /\ ~WellFormedId(req[v].arg)
        /\ resp[v].status = 400
        /\ files # {}

SameImage(r, q) ==
    /\ r.status = q.status
    /\ r.body = q.body
    /\ r.ctype = q.ctype
    /\ r.cache = q.cache
    /\ r.clen = q.clen

\* C7  Idempotent reads: two GETs by the same identifier, both begun after
\* the upload that issued it answered, return the same status, body,
\* Content-Type, Cache-Control and Content-Length; no step of a download
\* changes a files document or a chunk.
C7_IdempotentReads ==
    /\ [](\A w, v \in Workers :
            ( /\ Done(w, "getid") /\ Done(v, "getid")
              /\ req[w].arg = req[v].arg
              /\ req[w].known /\ req[v].known ) =>
               SameImage(resp[w], resp[v]))
    /\ [][\A w \in Workers :
            req'[w].op \in {"getid", "getname"} /\ pc'[w] # pc[w] =>
               UNCHANGED <<files, chunks>>]_vars

\* two answers for one identifier are held, one from before and one from
\* after a second object was stored
C7_Witness ==
    \E w, v \in Workers :
        /\ w # v
        /\ Done(w, "getid") /\ Done(v, "getid")
        /\ req[w].arg = req[v].arg
        /\ req[w].known /\ req[v].known
        /\ resp[w].body # <<>>
        /\ Cardinality(files) = 2

\* C8  Concurrent uploads of one filename: every upload with an allowed
\* extension answers 201 and leaves its object fully present under the
\* identifier it returns; two uploads never return the same identifier, and
\* no identifier belongs to two files documents.
C8_ConcurrentUploads ==
    /\ \A w \in Workers :
         Done(w, "post") /\ ImageName(req[w].arg) =>
            /\ resp[w].status = 201
            /\ FullyPresent(HexDecode(resp[w].id))
            /\ uploads[HexDecode(resp[w].id)] =
                  [name |-> req[w].arg, content |-> req[w].content]
    /\ \A w, v \in Workers :
         ( /\ w # v
           /\ Done(w, "post") /\ Done(v, "post")
           /\ resp[w].status = 201 /\ resp[v].status = 201 ) =>
            resp[w].id # resp[v].id
    /\ \A d, e \in files : d.id = e.id => d = e

\* two uploads of one filename with different payloads overlapped (they
\* share their uploadDate) and both have answered 201
C8_Witness ==
    \E w, v \in Workers :
        /\ w # v
        /\ Done(w, "post") /\ Done(v, "post")
        /\ resp[w].status = 201 /\ resp[v].status = 201
        /\ req[w].arg = req[v].arg
        /\ req[w].content # req[v].content
        /\ \E d, e \in files :
             /\ d.id = HexDecode(resp[w].id) /\ e.id = HexDecode(resp[v].id)
             /\ d.uploadDate = e.uploadDate

RECURSIVE SumLen(_)
SumLen(cur) == IF cur = <<>> THEN 0 ELSE Len(Head(cur).data) + SumLen(Tail(cur))

\* C9  Chunk structure: the chunks of every object with a files document are
\* numbered 0..n-1 without gap or duplicate, every chunk but the last holds
\* chunkSize bytes and the last 1..chunkSize bytes, and the chunk lengths add
\* up to the files document's length, which is the length of the uploaded
\* payload and the size the 201 response reports.
C9_ChunkStructure ==
    /\ \A d \in files :
         LET C == ChunksOf(d.id)
             n == Cardinality(C)
         IN  /\ Contiguous(d.id)
             /\ \A c \in C :
                  IF c.n = n - 1
                  THEN Len(c.data) >= 1 /\ Len(c.data) <= ChunkSize
                  ELSE Len(c.data) = ChunkSize
             /\ SumLen(SortByN(C)) = d.length
             /\ d.length = Len(uploads[d.id].content)
    /\ \A w \in Workers :
         Done(w, "post") /\ resp[w].status = 201 =>
            /\ resp[w].size = Len(req[w].content)
            /\ \A d \in FindById(HexDecode(resp[w].id)) : d.length = resp[w].size

\* objects of three chunks, of one full chunk and of no chunk are stored
C9_Witness ==
    /\ \E d \in files : Cardinality(ChunksOf(d.id)) = 3 /\ d.length = 2 * ChunkSize + 1
    /\ \E w \in Workers :
         /\ Done(w, "post") /\ resp[w].status = 201
         /\ resp[w].size = ChunkSize
         /\ FindById(HexDecode(resp[w].id)) # {}

\* C10  Header/body consistency of the download by name: every files document
\* carries the extension of its filename, one of .jpg, .jpeg, .png; so the
\* Content-Type of a 200 response by name is that of the object whose bytes
\* are returned, also when FindOne picked another object of the same name,
\* and Content-Length is the length of the body.
C10_HeaderBodyConsistency ==
    /\ \A d \in files :
         /\ AllowedExtension(d.ext)
         /\ HasSuffix(d.filename, d.ext)
         /\ ImageName(d.filename)
    /\ \A w \in Workers :
         Done(w, "getname") /\ resp[w].status = 200 =>
            /\ resp[w].clen = Len(resp[w].body)
            /\ resp[w].cache = CacheControl
            /\ \E d \in files :
                 /\ d.id = resp[w].src
                 /\ resp[w].ctype = MimeOf(d.filename)
                 /\ resp[w].body = Reassembled(d.id)

\* FindOne picked one object of the name and the bytes of another were sent
C10_Witness ==
    \E w \in Workers :
        /\ Done(w, "getname") /\ resp[w].status = 200
        /\ meta[w].id # resp[w].src
        /\ resp[w].body # <<>>
        /\ HasSuffix(req[w].arg, <<".","j","p","e","g">>)

==========================================================================
